---- MODULE Spec2Model ----
(***************************************************************************)
(* Model of the NestJS JWT authentication backend: AuthService             *)
(* (register / validateUser / login / logout), AuthController (the four    *)
(* POST routes) and JwtStrategy / JwtAuthGuard (bearer-token check), over  *)
(* the User table of the Prisma store.                                     *)
(*                                                                         *)
(* Strings are sequences of one-character strings, so that toLowerCase,    *)
(* the email regular expression and password.length are computed.          *)
(* Time is a clock of whole ticks; a token lives ExpiresIn ticks.          *)
(***************************************************************************)
EXTENDS Integers, Sequences, FiniteSets, TLC

(***************************************************************************)
(* Bounds of the model.                                                    *)
(***************************************************************************)
MaxTime == 2        \* last clock tick
ExpiresIn == 2      \* signOptions.expiresIn ('1h'), in clock ticks
MaxTokens == 2      \* distinct tokens login may sign in one run
NumProcs == 2       \* requests the server may have in flight at once

(***************************************************************************)
(* Program constants.                                                      *)
(***************************************************************************)
SALT_ROUNDS == 10
MinPasswordLength == 6

JWT_SECRET == "JWT_SECRET"
ForgedKey == "not-the-secret"

(***************************************************************************)
(* Values of the request fields.  Undefined is a field that is missing     *)
(* from the JSON body (JavaScript undefined); Empty is the empty string.   *)
(***************************************************************************)
Undefined == <<"undefined">>
Empty == <<>>

aLower == <<"a", "@", "x", ".", "y">>
aUpper == <<"A", "@", "x", ".", "y">>
bLower == <<"b", "@", "x", ".", "y">>
noTld == <<"a", "@", "x">>

secret1 == <<"s", "e", "c", "r", "e", "t">>
short5 == <<"s", "e", "c", "r", "e">>

EmailInputs == {aLower, aUpper, bLower, noTld, Undefined}
PasswordInputs == {secret1, short5, Undefined}
Salts == {"salt1"}

\* JavaScript falsiness of a string-or-undefined value: !x
Falsy(x) == x = Undefined \/ x = Empty

(***************************************************************************)
(* String.prototype.toLowerCase, character by character.                   *)
(***************************************************************************)
ToLowerChar(c) ==
    CASE c = "A" -> "a"
      [] c = "B" -> "b"
      [] c = "S" -> "s"
      [] c = "X" -> "x"
      [] c = "Y" -> "y"
      [] OTHER -> c

toLowerCase(s) == [i \in 1..Len(s) |-> ToLowerChar(s[i])]

(***************************************************************************)
(* emailRegex = /^[^\s@]+@[^\s@]+\.[^\s@]+$/                               *)
(***************************************************************************)
NoSpaceNoAt(s, from, to) == \A k \in from..to : s[k] \notin {" ", "@"}

emailRegexTest(s) ==
    \E i \in 1..Len(s), j \in 1..Len(s) :
        /\ 1 < i /\ i + 1 < j /\ j < Len(s)
        /\ s[i] = "@"
        /\ s[j] = "."
        /\ NoSpaceNoAt(s, 1, i - 1)
        /\ NoSpaceNoAt(s, i + 1, j - 1)
        /\ NoSpaceNoAt(s, j + 1, Len(s))

(***************************************************************************)
(* bcrypt: a salted one-way hash.  The hash value keeps the cost and the   *)
(* salt; compare re-hashes the candidate with the salt of the stored hash. *)
(***************************************************************************)
BcryptHash(password, rounds, salt) ==
    [rounds |-> rounds, salt |-> salt, digest |-> password]

BcryptCompare(password, hash) ==
    BcryptHash(password, hash.rounds, hash.salt) = hash

(***************************************************************************)
(* Tokens.  NoToken is SQL NULL in User.currentToken and the absent or     *)
(* malformed Authorization header in a request.                            *)
(***************************************************************************)
NoToken == [null |-> TRUE]

\* JwtService.sign(payload) under the module's secret and signOptions
JwtSign(payload, clock) ==
    [sub |-> payload.sub, email |-> payload.email,
     iat |-> clock, exp |-> clock + ExpiresIn, key |-> JWT_SECRET]

\* a well-formed, unexpired token for a known email, signed by a client
\* with a key that is not the server's
Forge(clock) ==
    [sub |-> 1, email |-> aLower,
     iat |-> clock, exp |-> clock + ExpiresIn, key |-> ForgedKey]

VARIABLES
    users,      \* the User table: a set of rows
    issued,     \* the tokens login has returned to clients so far
    now,        \* the clock
    registered, \* history: the inputs of every register call that succeeded
    resp,       \* history: the last request of the current tick and its response
    writeFails, \* the store rejects writes (create, update) while this is TRUE
    calls       \* the register and login calls in flight, one slot per request

vars == <<users, issued, now, registered, resp, writeFails, calls>>


(***************************************************************************)
(* Responses.  A thrown HttpException becomes its status, name and         *)
(* message; anything else thrown becomes 500 Internal server error.        *)
(***************************************************************************)
NoBody == [none |-> TRUE]

Exception(status, error, message) ==
    [status |-> status, error |-> error, message |-> message, body |-> NoBody]

Ok(status, body) ==
    [status |-> status, error |-> "none", message |-> "", body |-> body]

InternalServerError == Exception(500, "InternalServerError", "Internal server error")

(***************************************************************************)
(* The Prisma User table: id @id @default(uuid()), email @unique,          *)
(* password, currentToken nullable, createdAt @default(now()).             *)
(***************************************************************************)
NoRow == [none |-> TRUE]

\* a fresh id: the uuid default never repeats an id of the table
NewId == Cardinality(users) + 1

\* the create as it would be without @unique on email
userCreate_NoUnique(data) ==
    IF writeFails
    THEN [code |-> "P1001", row |-> NoRow]
    ELSE [code |-> "",
          row |-> [id |-> NewId, email |-> data.email, password |-> data.password,
                   currentToken |-> NoToken, createdAt |-> now]]

\* prisma.user.create: P2002 is the unique-constraint violation on email;
\* a write the store rejects throws an error with another code
userCreate(data) ==
    IF writeFails
    THEN [code |-> "P1001", row |-> NoRow]
    ELSE IF \E u \in users : u.email = data.email
    THEN [code |-> "P2002", row |-> NoRow]
    ELSE [code |-> "",
          row |-> [id |-> NewId, email |-> data.email, password |-> data.password,
                   currentToken |-> NoToken, createdAt |-> now]]

\* prisma.user.findUnique({ where: { email } }): the matching row, or none
userFindUnique(email) == {u \in users : u.email = email}

\* the update as it would be with its where clause matching every row
userUpdateById_AllRows(id, token) ==
    {[u EXCEPT !.currentToken = token] : u \in users}

\* prisma.user.update({ where: { id }, data: { currentToken } })
userUpdateById(id, token) ==
    {IF u.id = id THEN [u EXCEPT !.currentToken = token] ELSE u : u \in users}

\* prisma.user.update({ where: { email }, data: { currentToken } })
userUpdateByEmail(email, token) ==
    {IF u.email = email THEN [u EXCEPT !.currentToken = token] ELSE u : u \in users}

(***************************************************************************)
(* AuthService                                                             *)
(***************************************************************************)
\* removes the password field only
sanitizeUser(user) ==
    [id |-> user.id, email |-> user.email,
     currentToken |-> user.currentToken, createdAt |-> user.createdAt]

\* validateInput as it would be with the email format tested before the
\* password length
validateInput_EmailFirst(data) ==
    IF Falsy(data.email) \/ Falsy(data.password)
    THEN "Email and password are required"
    ELSE IF ~emailRegexTest(data.email)
    THEN "Invalid email format"
    ELSE IF Len(data.password) < MinPasswordLength
    THEN "Password must be at least 6 characters"
    ELSE ""

\* the message of the BadRequestException thrown, "" when none is thrown
validateInput(data) ==
    IF Falsy(data.email) \/ Falsy(data.password)
    THEN "Email and password are required"
    ELSE IF Len(data.password) < MinPasswordLength
    THEN "Password must be at least 6 characters"
    ELSE IF ~emailRegexTest(data.email)
    THEN "Invalid email format"
    ELSE ""

handlePrismaError(error) ==
    IF error.code = "P2002"
    THEN Exception(409, "ConflictException",
                   "Email is already registered. Please use a different email.")
    ELSE InternalServerError

\* register as it would be without the toLowerCase() of line 48
register_KeepsCase(data, salt) ==
    LET invalid == validateInput(data) IN
    IF invalid # ""
    THEN [users |-> users, out |-> Exception(400, "BadRequestException", invalid)]
    ELSE LET hashedPassword == BcryptHash(data.password, SALT_ROUNDS, salt)
             created == userCreate([email |-> data.email, password |-> hashedPassword])
         IN  IF created.code # ""
             THEN [users |-> users, out |-> handlePrismaError(created)]
             ELSE [users |-> users \cup {created.row},
                   out |-> Ok(201, sanitizeUser(created.row))]

register(data, salt) ==
    LET invalid == validateInput(data) IN
    IF invalid # ""
    THEN [users |-> users, out |-> Exception(400, "BadRequestException", invalid)]
    ELSE LET hashedPassword == BcryptHash(data.password, SALT_ROUNDS, salt)
             created == userCreate([email |-> toLowerCase(data.email),
                                    password |-> hashedPassword])
         IN  IF created.code # ""
             THEN [users |-> users, out |-> handlePrismaError(created)]
             ELSE [users |-> users \cup {created.row},
                   out |-> Ok(201, sanitizeUser(created.row))]

\* validateUser as it would be without the toLowerCase() of line 68
validateUser_KeepsCase(email, password) ==
    IF email = Undefined
    THEN [threw |-> TRUE, user |-> {}]
    ELSE LET found == userFindUnique(email) IN
         IF found = {}
         THEN [threw |-> FALSE, user |-> {}]
         ELSE IF password = Undefined
         THEN [threw |-> TRUE, user |-> {}]
         ELSE [threw |-> FALSE,
               user |-> {u \in found : BcryptCompare(password, u.password)}]

\* [threw, user]: user is the set holding the validated row, empty for null.
\* email.toLowerCase() throws a TypeError on a missing email; bcrypt.compare
\* rejects a missing password.
validateUser(email, password) ==
    IF email = Undefined
    THEN [threw |-> TRUE, user |-> {}]
    ELSE LET found == userFindUnique(toLowerCase(email)) IN
         IF found = {}
         THEN [threw |-> FALSE, user |-> {}]
         ELSE IF password = Undefined
         THEN [threw |-> TRUE, user |-> {}]
         ELSE [threw |-> FALSE,
               user |-> {u \in found : BcryptCompare(password, u.password)}]

\* login as it would be with a message of its own for an unknown email
login_Leaky(email, password) ==
    LET validated == validateUser(email, password) IN
    IF validated.threw
    THEN [users |-> users, out |-> InternalServerError]
    ELSE IF validated.user = {}
    THEN [users |-> users,
          out |-> Exception(401, "UnauthorizedException",
                            IF userFindUnique(toLowerCase(email)) = {}
                            THEN "User not found"
                            ELSE "Invalid email or password")]
    ELSE LET user == CHOOSE u \in validated.user : TRUE
             payload == [sub |-> user.id, email |-> user.email]
             access_token == JwtSign(payload, now)
         IN  [users |-> userUpdateById(user.id, access_token),
              out |-> Ok(200, [access_token |-> access_token])]

\* login as it would be without the prisma.user.update of lines 98-101
login_NoPersist(email, password) ==
    LET validated == validateUser(email, password) IN
    IF validated.threw
    THEN [users |-> users, out |-> InternalServerError]
    ELSE IF validated.user = {}
    THEN [users |-> users,
          out |-> Exception(401, "UnauthorizedException", "Invalid email or password")]
    ELSE LET user == CHOOSE u \in validated.user : TRUE
             payload == [sub |-> user.id, email |-> user.email]
             access_token == JwtSign(payload, now)
         IN  [users |-> users, out |-> Ok(200, [access_token |-> access_token])]

\* login as it would be if the payload took the email of the request
login_PayloadRequestEmail(email, password) ==
    LET validated == validateUser(email, password) IN
    IF validated.threw
    THEN [users |-> users, out |-> InternalServerError]
    ELSE IF validated.user = {}
    THEN [users |-> users,
          out |-> Exception(401, "UnauthorizedException", "Invalid email or password")]
    ELSE LET user == CHOOSE u \in validated.user : TRUE
             payload == [sub |-> user.id, email |-> email]
             access_token == JwtSign(payload, now)
         IN  [users |-> userUpdateById(user.id, access_token),
              out |-> Ok(200, [access_token |-> access_token])]

\* login as it would be if it caught the rejected update and answered anyway
login_SwallowsWriteError(email, password) ==
    LET validated == validateUser(email, password) IN
    IF validated.threw
    THEN [users |-> users, out |-> InternalServerError]
    ELSE IF validated.user = {}
    THEN [users |-> users,
          out |-> Exception(401, "UnauthorizedException", "Invalid email or password")]
    ELSE LET user == CHOOSE u \in validated.user : TRUE
             payload == [sub |-> user.id, email |-> user.email]
             access_token == JwtSign(payload, now)
         IN  [users |-> IF writeFails THEN users
                        ELSE userUpdateById(user.id, access_token),
              out |-> Ok(200, [access_token |-> access_token])]

\* the update of lines 98-101 is awaited outside any try/catch: when the
\* store rejects it, the error leaves login and the request answers 500
login(email, password) ==
    LET validated == validateUser(email, password) IN
    IF validated.threw
    THEN [users |-> users, out |-> InternalServerError]
    ELSE IF validated.user = {}
    THEN [users |-> users,
          out |-> Exception(401, "UnauthorizedException", "Invalid email or password")]
    ELSE LET user == CHOOSE u \in validated.user : TRUE
             payload == [sub |-> user.id, email |-> user.email]
             access_token == JwtSign(payload, now)
         IN  IF writeFails
             THEN [users |-> users, out |-> InternalServerError]
             ELSE [users |-> userUpdateById(user.id, access_token),
                   out |-> Ok(200, [access_token |-> access_token])]

\* logout as it would be without the ownership check of lines 127-129
logout_NoOwnerCheck(email, loggedInUserEmail) ==
    IF Falsy(email)
    THEN [users |-> users,
          out |-> Exception(400, "BadRequestException", "Email is required")]
    ELSE IF userFindUnique(email) = {}
    THEN [users |-> users,
          out |-> Exception(400, "BadRequestException", "Enter a valid email.")]
    ELSE [users |-> userUpdateByEmail(email, NoToken), out |-> Ok(200, TRUE)]

\* logout as it would be without the prisma.user.update of lines 132-135
logout_NoClear(email, loggedInUserEmail) ==
    IF Falsy(email)
    THEN [users |-> users,
          out |-> Exception(400, "BadRequestException", "Email is required")]
    ELSE IF userFindUnique(email) = {}
    THEN [users |-> users,
          out |-> Exception(400, "BadRequestException", "Enter a valid email.")]
    ELSE IF email # loggedInUserEmail
    THEN [users |-> users,
          out |-> Exception(403, "ForbiddenException",
                            "You can only logout your own account.")]
    ELSE [users |-> users, out |-> Ok(200, TRUE)]

\* logout as it would be if it refused a user whose currentToken is NULL
logout_RequiresStored(email, loggedInUserEmail) ==
    IF Falsy(email)
    THEN [users |-> users,
          out |-> Exception(400, "BadRequestException", "Email is required")]
    ELSE IF userFindUnique(email) = {}
    THEN [users |-> users,
          out |-> Exception(400, "BadRequestException", "Enter a valid email.")]
    ELSE IF email # loggedInUserEmail
    THEN [users |-> users,
          out |-> Exception(403, "ForbiddenException",
                            "You can only logout your own account.")]
    ELSE IF \A u \in userFindUnique(email) : u.currentToken = NoToken
    THEN [users |-> users,
          out |-> Exception(400, "BadRequestException", "Not logged in.")]
    ELSE [users |-> userUpdateByEmail(email, NoToken), out |-> Ok(200, TRUE)]

\* logout as it would be with the ownership check before the lookup
logout_OwnerFirst(email, loggedInUserEmail) ==
    IF Falsy(email)
    THEN [users |-> users,
          out |-> Exception(400, "BadRequestException", "Email is required")]
    ELSE IF email # loggedInUserEmail
    THEN [users |-> users,
          out |-> Exception(403, "ForbiddenException",
                            "You can only logout your own account.")]
    ELSE IF userFindUnique(email) = {}
    THEN [users |-> users,
          out |-> Exception(400, "BadRequestException", "Enter a valid email.")]
    ELSE [users |-> userUpdateByEmail(email, NoToken), out |-> Ok(200, TRUE)]

\* logout as it would be with the update before the ownership check
logout_ClearsBeforeOwnerCheck(email, loggedInUserEmail) ==
    IF Falsy(email)
    THEN [users |-> users,
          out |-> Exception(400, "BadRequestException", "Email is required")]
    ELSE IF userFindUnique(email) = {}
    THEN [users |-> users,
          out |-> Exception(400, "BadRequestException", "Enter a valid email.")]
    ELSE IF email # loggedInUserEmail
    THEN [users |-> userUpdateByEmail(email, NoToken),
          out |-> Exception(403, "ForbiddenException",
                            "You can only logout your own account.")]
    ELSE IF writeFails
    THEN [users |-> users, out |-> InternalServerError]
    ELSE [users |-> userUpdateByEmail(email, NoToken), out |-> Ok(200, TRUE)]

\* the service's logout: true (body TRUE) or the exception thrown
logout(email, loggedInUserEmail) ==
    IF Falsy(email)
    THEN [users |-> users,
          out |-> Exception(400, "BadRequestException", "Email is required")]
    ELSE IF userFindUnique(email) = {}
    THEN [users |-> users,
          out |-> Exception(400, "BadRequestException", "Enter a valid email.")]
    ELSE IF email # loggedInUserEmail
    THEN [users |-> users,
          out |-> Exception(403, "ForbiddenException",
                            "You can only logout your own account.")]
    ELSE IF writeFails
    THEN [users |-> users, out |-> InternalServerError]
    ELSE [users |-> userUpdateByEmail(email, NoToken), out |-> Ok(200, TRUE)]

(***************************************************************************)
(* JwtStrategy / JwtAuthGuard                                              *)
(***************************************************************************)
\* the verification as it would be with ignoreExpiration: true
JwtVerify_IgnoreExpiration(token, clock) ==
    /\ token # NoToken
    /\ token.key = JWT_SECRET

\* the verification as it would be if the signature were not checked
JwtVerify_NoSignature(token, clock) ==
    /\ token # NoToken
    /\ clock < token.exp

\* passport-jwt: a bearer token is present, its signature verifies under
\* secretOrKey, and (ignoreExpiration: false) its exp has not been reached
JwtVerify(token, clock) ==
    /\ token # NoToken
    /\ token.key = JWT_SECRET
    /\ clock < token.exp

\* JwtStrategy.validate(payload): req.user
validate(payload) == [userId |-> payload.sub, email |-> payload.email]

\* a guard that also requires the token to be the stored currentToken
JwtAuthGuard_ChecksStored(auth) ==
    /\ JwtVerify(auth, now)
    /\ \E u \in users : u.currentToken = auth

JwtAuthGuard(auth) == JwtVerify(auth, now)

Unauthorized == Exception(401, "UnauthorizedException", "Unauthorized")


(***************************************************************************)
(* AuthController: the guarded routes, after the body has been parsed.     *)
(***************************************************************************)
\* POST /auth/profile (no @HttpCode: a POST route answers 201)
AuthController_profile(auth) ==
    IF ~JwtAuthGuard(auth)
    THEN [users |-> users, out |-> Unauthorized]
    ELSE [users |-> users, out |-> Ok(201, validate(auth))]

\* the route as it would be if it served only the session that is stored
AuthController_logout_CurrentSessionOnly(email, auth) ==
    IF ~JwtAuthGuard(auth) \/ ~(\E u \in users : u.currentToken = auth)
    THEN [users |-> users, out |-> Unauthorized]
    ELSE IF Falsy(email)
    THEN [users |-> users,
          out |-> Ok(200, [message |-> "Email is required to logout"])]
    ELSE LET result == logout(email, validate(auth).email) IN
         IF result.out.error # "none"
         THEN result
         ELSE [users |-> result.users,
               out |-> Ok(200, [message |-> "logged out successfully"])]

\* POST /auth/logout, @HttpCode(200)
AuthController_logout(email, auth) ==
    IF ~JwtAuthGuard(auth)
    THEN [users |-> users, out |-> Unauthorized]
    ELSE IF Falsy(email)
    THEN [users |-> users,
          out |-> Ok(200, [message |-> "Email is required to logout"])]
    ELSE LET loggedInUserEmail == validate(auth).email IN
         IF Falsy(loggedInUserEmail)
         THEN [users |-> users,
               out |-> Ok(200, [message |->
                          "Unable to extract logged-in user email from token"])]
         ELSE LET result == logout(email, loggedInUserEmail) IN
              IF result.out.error # "none"
              THEN result
              ELSE [users |-> result.users,
                    out |-> Ok(200, [message |->
                               IF result.out.body
                               THEN "logged out successfully"
                               ELSE "No user found"])]

(***************************************************************************)
(* The state machine: one action per HTTP request, and the clock.          *)
(***************************************************************************)
NoRequest ==
    [op |-> "none", email |-> Undefined, password |-> Undefined, auth |-> NoToken,
     status |-> 0, error |-> "none", message |-> "", body |-> NoBody]

Respond(op, email, password, auth, out) ==
    [op |-> op, email |-> email, password |-> password, auth |-> auth,
     status |-> out.status, error |-> out.error, message |-> out.message,
     body |-> out.body]

\* what a client can put in the Authorization header: nothing, a token a
\* login returned, or a token it signed itself
Presentable == {NoToken, Forge(now)} \cup issued

\* a call slot: pc is the await the call is suspended at
Procs == 1..NumProcs

Pending == [status |-> 0, error |-> "none", message |-> "", body |-> NoBody]

Idle ==
    [op |-> "idle", pc |-> "idle", email |-> Undefined, password |-> Undefined,
     salt |-> "", startedAt |-> 0, found |-> {}, token |-> NoToken, out |-> Pending]

Done(call, out) ==
    [Idle EXCEPT !.op = call.op, !.pc = "done", !.email = call.email,
                 !.startedAt = call.startedAt, !.out = out]

Init ==
    /\ users = {}
    /\ issued = {}
    /\ now = 0
    /\ registered = {}
    /\ resp = NoRequest
    /\ writeFails = FALSE
    /\ calls = [p \in Procs |-> Idle]

Register(data, salt) ==
    LET r == register(data, salt) IN
    /\ users' = r.users
    /\ registered' =
          IF r.out.status = 201
          THEN registered \cup {[id |-> r.out.body.id, email |-> data.email,
                                 password |-> data.password]}
          ELSE registered
    /\ resp' = Respond("register", data.email, data.password, NoToken, r.out)
    /\ UNCHANGED <<issued, now, writeFails, calls>>

Login(email, password) ==
    LET r == login(email, password) IN
    /\ r.out.status = 200 =>
          \/ r.out.body.access_token \in issued
          \/ Cardinality(issued) < MaxTokens
    /\ users' = r.users
    /\ issued' = IF r.out.status = 200
                 THEN issued \cup {r.out.body.access_token}
                 ELSE issued
    /\ resp' = Respond("login", email, password, NoToken, r.out)
    /\ UNCHANGED <<now, registered, writeFails, calls>>

Profile(auth) ==
    LET r == AuthController_profile(auth) IN
    /\ users' = r.users
    /\ resp' = Respond("profile", Undefined, Undefined, auth, r.out)
    /\ UNCHANGED <<issued, now, registered, writeFails, calls>>

Logout(email, auth) ==
    LET r == AuthController_logout(email, auth) IN
    /\ users' = r.users
    /\ resp' = Respond("logout", email, Undefined, auth, r.out)
    /\ UNCHANGED <<issued, now, registered, writeFails, calls>>

Tick ==
    /\ now < MaxTime
    /\ now' = now + 1
    /\ resp' = NoRequest
    /\ UNCHANGED <<users, issued, registered, writeFails, calls>>

Next ==
    \/ \E email \in EmailInputs, password \in PasswordInputs, salt \in Salts :
          Register([email |-> email, password |-> password], salt)
    \/ \E email \in EmailInputs, password \in PasswordInputs : Login(email, password)
    \/ \E auth \in Presentable : Profile(auth)
    \/ \E email \in EmailInputs, auth \in Presentable : Logout(email, auth)
    \/ Tick

Spec == Init /\ [][Next]_vars

(***************************************************************************)
(* The same requests against a store that may start and stop rejecting     *)
(* writes between requests.                                                *)
(***************************************************************************)
StoreFault ==
    /\ writeFails' = ~writeFails
    /\ resp' = NoRequest
    /\ UNCHANGED <<users, issued, now, registered, calls>>

NextFault == Next \/ StoreFault

SpecFault == Init /\ [][NextFault]_vars


(***************************************************************************)
(* Overlapping requests.  NestJS serves each request as an async call on   *)
(* one event loop: a call runs alone up to its next await, and other calls *)
(* run while it is suspended.  register and login are split at the awaits  *)
(* that reach the store or read the clock; logout's lookup and update      *)
(* read and write only what no other call changes (the existence of the    *)
(* row, and NULL), so it stays one step, taken at its update.              *)
(***************************************************************************)
ConcEmails == {aLower, aUpper}
ConcPasswords == {secret1, short5}

Free(p) == calls[p].pc \in {"idle", "done"}

\* tokens signed by calls that have not answered yet
InFlightTokens == {calls[p].token : p \in Procs} \ {NoToken}

\* register is called; validateInput and bcrypt.hash (lines 38-43) read
\* nothing shared, the call is suspended before prisma.user.create
RegisterCall(p, data, salt) ==
    /\ Free(p)
    /\ calls' = [calls EXCEPT ![p] =
                    [Idle EXCEPT !.op = "register", !.pc = "create",
                                 !.email = data.email, !.password = data.password,
                                 !.salt = salt, !.startedAt = now]]
    /\ UNCHANGED <<users, issued, now, registered, resp, writeFails>>

\* the create of lines 46-51 (one statement of the database) and the return
RegisterCreate(p) ==
    /\ calls[p].op = "register"
    /\ calls[p].pc = "create"
    /\ LET c == calls[p]
           r == register([email |-> c.email, password |-> c.password], c.salt)
       IN  /\ users' = r.users
           /\ registered' =
                 IF r.out.status = 201
                 THEN registered \cup {[id |-> r.out.body.id, email |-> c.email,
                                        password |-> c.password]}
                 ELSE registered
           /\ calls' = [calls EXCEPT ![p] = Done(c, r.out)]
    /\ UNCHANGED <<issued, now, resp, writeFails>>

\* login is called: validateUser's findUnique (lines 67-73)
LoginFind(p, email, password) ==
    /\ Free(p)
    /\ LET c == [Idle EXCEPT !.op = "login", !.email = email,
                             !.password = password, !.startedAt = now]
           found == userFindUnique(toLowerCase(email))
       IN  calls' = [calls EXCEPT ![p] =
               IF found = {}
               THEN Done(c, Exception(401, "UnauthorizedException",
                                      "Invalid email or password"))
               ELSE [c EXCEPT !.pc = "compare", !.found = found]]
    /\ UNCHANGED <<users, issued, now, registered, resp, writeFails>>

\* the signing step as it would be with the request's email in the payload
LoginSign_PayloadRequestEmail(p) ==
    /\ calls[p].op = "login"
    /\ calls[p].pc = "compare"
    /\ LET c == calls[p]
           user == CHOOSE u \in c.found : TRUE
           payload == [sub |-> user.id, email |-> c.email]
           access_token == JwtSign(payload, now)
       IN  IF ~BcryptCompare(c.password, user.password)
           THEN calls' = [calls EXCEPT ![p] =
                    Done(c, Exception(401, "UnauthorizedException",
                                      "Invalid email or password"))]
           ELSE /\ Cardinality(issued \cup InFlightTokens \cup {access_token})
                      <= MaxTokens
                /\ calls' = [calls EXCEPT ![p] =
                                [c EXCEPT !.pc = "update", !.token = access_token]]
    /\ UNCHANGED <<users, issued, now, registered, resp, writeFails>>

\* bcrypt.compare resolves (line 75), then login builds the payload and
\* signs it (lines 89-95) with the clock of that moment
LoginSign(p) ==
    /\ calls[p].op = "login"
    /\ calls[p].pc = "compare"
    /\ LET c == calls[p]
           user == CHOOSE u \in c.found : TRUE
           payload == [sub |-> user.id, email |-> user.email]
           access_token == JwtSign(payload, now)
       IN  IF ~BcryptCompare(c.password, user.password)
           THEN calls' = [calls EXCEPT ![p] =
                    Done(c, Exception(401, "UnauthorizedException",
                                      "Invalid email or password"))]
           ELSE /\ Cardinality(issued \cup InFlightTokens \cup {access_token})
                      <= MaxTokens
                /\ calls' = [calls EXCEPT ![p] =
                                [c EXCEPT !.pc = "update", !.token = access_token]]
    /\ UNCHANGED <<users, issued, now, registered, resp, writeFails>>

\* the update of lines 98-101 and the return of line 103
LoginUpdate(p) ==
    /\ calls[p].op = "login"
    /\ calls[p].pc = "update"
    /\ LET c == calls[p]
           user == CHOOSE u \in c.found : TRUE
       IN  IF writeFails
           THEN /\ calls' = [calls EXCEPT ![p] = Done(c, InternalServerError)]
                /\ UNCHANGED <<users, issued>>
           ELSE /\ users' = userUpdateById(user.id, c.token)
                /\ issued' = issued \cup {c.token}
                /\ calls' = [calls EXCEPT ![p] =
                                Done(c, Ok(200, [access_token |-> c.token]))]
    /\ UNCHANGED <<now, registered, resp, writeFails>>

NextConc ==
    \/ \E p \in Procs, email \in ConcEmails, password \in ConcPasswords,
          salt \in Salts :
          RegisterCall(p, [email |-> email, password |-> password], salt)
    \/ \E p \in Procs : RegisterCreate(p)
    \/ \E p \in Procs, email \in ConcEmails, password \in ConcPasswords :
          LoginFind(p, email, password)
    \/ \E p \in Procs : LoginSign(p)
    \/ \E p \in Procs : LoginUpdate(p)
    \/ \E auth \in issued : Logout(auth.email, auth)
    \/ Tick

SpecConc == Init /\ [][NextConc]_vars

(***************************************************************************)
(* Vocabulary of the properties.                                           *)
(***************************************************************************)
\* the request passed JwtAuthGuard: it was not answered 401
GuardPassed == resp.status # 401

\* the row of the user with this id
RowsById(table, id) == {u \in table : u.id = id}

\* (email, password) is the pair of a registration that succeeded, up to the
\* case of the email
MatchesRegistration(email, password) ==
    /\ email # Undefined
    /\ password # Undefined
    /\ \E r \in registered :
          /\ toLowerCase(r.email) = toLowerCase(email)
          /\ r.password = password

IsLowerCase(s) == toLowerCase(s) = s


(***************************************************************************)
(* C1  Sequential registration uniqueness.  No two rows have the same      *)
(* lowercase email; and a register call with a well-formed email and a     *)
(* password of at least 6 characters creates exactly one row (with the     *)
(* lowercased email) when no row has that lowercase email yet, and fails   *)
(* with ConflictException, leaving the table as it was, when one has.      *)
(***************************************************************************)
C1_NoDuplicateEmail ==
    \A u, v \in users : toLowerCase(u.email) = toLowerCase(v.email) => u = v

C1_ValidRegistration(r) ==
    /\ r.op = "register"
    /\ ~Falsy(r.email)
    /\ ~Falsy(r.password)
    /\ Len(r.password) >= 6
    /\ emailRegexTest(r.email)

C1_RegisterStep ==
    C1_ValidRegistration(resp') =>
        IF \E u \in users : toLowerCase(u.email) = toLowerCase(resp'.email)
        THEN /\ resp'.status = 409
             /\ resp'.error = "ConflictException"
             /\ users' = users
        ELSE /\ resp'.status = 201
             /\ users \subseteq users'
             /\ Cardinality(users') = Cardinality(users) + 1
             /\ \A u \in users' \ users : u.email = toLowerCase(resp'.email)

C1_RegistrationUniqueness == [](C1_NoDuplicateEmail) /\ [][C1_RegisterStep]_vars

\* a second registration of an email, in another case, was refused
C1_Witness ==
    /\ resp.op = "register"
    /\ resp.status = 409
    /\ resp.email = aUpper
    /\ \E r \in registered : r.email = aLower
    /\ Cardinality(users) = 2

(***************************************************************************)
(* C2  A caller can only invalidate their own session.  A row's            *)
(* currentToken goes from present to absent only in a logout request that  *)
(* passed the guard with a token whose email claim is the row's email; and *)
(* a guarded logout whose target is the stored email of another existing   *)
(* user fails with ForbiddenException and leaves the table unchanged.      *)
(***************************************************************************)
C2_ClearedOnlyByOwner ==
    \A u \in users :
        (/\ u.currentToken # NoToken
         /\ \E v \in RowsById(users', u.id) : v.currentToken = NoToken)
        => /\ resp'.op = "logout"
           /\ JwtVerify(resp'.auth, now)
           /\ resp'.auth.email = u.email

C2_OtherUserForbidden ==
    (/\ resp'.op = "logout"
     /\ JwtVerify(resp'.auth, now)
     /\ \E b \in users : b.email = resp'.email /\ b.email # resp'.auth.email)
    => /\ resp'.status = 403
       /\ resp'.error = "ForbiddenException"
       /\ users' = users

C2_OwnSessionOnly == [][C2_ClearedOnlyByOwner /\ C2_OtherUserForbidden]_vars

\* b, logged in, was refused the logout of a, whose session is still stored
C2_Witness ==
    /\ resp.op = "logout"
    /\ resp.status = 403
    /\ resp.auth \in issued
    /\ resp.auth.email = bLower
    /\ resp.email = aLower
    /\ \E a \in users : a.email = aLower /\ a.currentToken # NoToken


(***************************************************************************)
(* C3  Authorization never reads the stored currentToken.  A guarded       *)
(* request (profile, logout) that carries a token a login returned is let  *)
(* through at every moment before the token's expiry, whatever the         *)
(* currentToken of its owner is: absent after a logout, or another token   *)
(* after a later login.                                                    *)
(***************************************************************************)
C3_AcceptedWhateverIsStored ==
    (/\ resp.op \in {"profile", "logout"}
     /\ resp.auth \in issued
     /\ now < resp.auth.exp)
    => /\ GuardPassed
       /\ resp.op = "profile" => resp.status = 201 /\ resp.body = validate(resp.auth)

\* a token superseded by a later login of its owner, who has since logged
\* out, still opens the profile route
C3_Witness ==
    /\ resp.op = "profile"
    /\ resp.status = 201
    /\ resp.auth \in issued
    /\ \E t \in issued : t.sub = resp.auth.sub /\ t.iat > resp.auth.iat
    /\ \E u \in users : u.id = resp.auth.sub /\ u.currentToken = NoToken

(***************************************************************************)
(* C4  Token expiry.  A guarded request carrying a token a login returned  *)
(* passes the guard when the clock is before the token's exp, and is       *)
(* answered 401 UnauthorizedException when the clock has reached it; a     *)
(* token the verification rejects is never accepted at a later time.       *)
(***************************************************************************)
C4_ExpiryDecidesGuard ==
    (/\ resp.op \in {"profile", "logout"}
     /\ resp.auth \in issued)
    => /\ now < resp.auth.exp => GuardPassed
       /\ now >= resp.auth.exp =>
             /\ resp.status = 401
             /\ resp.error = "UnauthorizedException"
             /\ resp.body = NoBody

C4_RejectedStaysRejected ==
    \A t \in issued : ~JwtVerify(t, now) => ~JwtVerify(t, now')

C4_TokenExpiry == [](C4_ExpiryDecidesGuard) /\ [][C4_RejectedStaysRejected]_vars

\* the stored token of a user was refused because its expiry has elapsed
C4_Witness ==
    /\ resp.op = "profile"
    /\ resp.status = 401
    /\ resp.auth \in issued
    /\ now >= resp.auth.exp
    /\ \E u \in users : u.currentToken = resp.auth


C6_LoginStoresToken ==
    (resp.op = "login" /\ resp.status = 200)
    => \E u \in users :
          /\ u.email = toLowerCase(resp.email)
          /\ u.currentToken = resp.body.access_token
          /\ resp.body.access_token.sub = u.id
          /\ resp.body.access_token \in issued

\* the login replaced the token of an earlier login of the same user
C6_Witness ==
    /\ resp.op = "login"
    /\ resp.status = 200
    /\ \E t \in issued :
          /\ t.sub = resp.body.access_token.sub
          /\ t.iat < resp.body.access_token.iat
    /\ \E u \in users : u.currentToken = resp.body.access_token

(***************************************************************************)
(* C7  Logout by the owner succeeds and clears the session.  A logout      *)
(* that passed the guard, whose target email equals the email claim of the *)
(* token and is the email of a row, answers 200 with the success message,  *)
(* and the row's currentToken is NULL afterwards.                          *)
(***************************************************************************)
C7_OwnerLogoutClears ==
    (/\ resp.op = "logout"
     /\ GuardPassed
     /\ resp.auth.email = resp.email
     /\ \E u \in users : u.email = resp.email)
    => /\ resp.status = 200
       /\ resp.body = [message |-> "logged out successfully"]
       /\ \A u \in users : u.email = resp.email => u.currentToken = NoToken

\* the owner logged out with the token of their latest login
C7_Witness ==
    /\ resp.op = "logout"
    /\ resp.status = 200
    /\ resp.auth \in issued
    /\ resp.auth.email = resp.email
    /\ \A t \in issued : t.sub = resp.auth.sub => t.iat <= resp.auth.iat
    /\ \E u \in users : u.email = resp.email /\ u.currentToken = NoToken


(***************************************************************************)
(* C8  A logout request that passes the guard but carries no target email  *)
(* fails with 400 BadRequestException: it is not answered as a success.    *)
(***************************************************************************)
C8_MissingEmailIsBadRequest ==
    (resp.op = "logout" /\ GuardPassed /\ Falsy(resp.email))
    => /\ resp.status = 400
       /\ resp.error = "BadRequestException"

(***************************************************************************)
(* C9  Email handling is case-insensitive in every operation.  Every       *)
(* stored email is lowercase; a login with the password and any case       *)
(* variant of the email of a registration succeeds; and a guarded logout   *)
(* whose target is any case variant of a stored email finds that user (it  *)
(* is not answered "Enter a valid email.").                                *)
(***************************************************************************)
C9_CaseInsensitiveEverywhere ==
    /\ \A u \in users : IsLowerCase(u.email)
    /\ (resp.op = "login" /\ MatchesRegistration(resp.email, resp.password))
       => resp.status = 200
    /\ (/\ resp.op = "logout"
        /\ GuardPassed
        /\ ~Falsy(resp.email)
        /\ \E u \in users : u.email = toLowerCase(resp.email))
       => resp.message # "Enter a valid email."

(***************************************************************************)
(* C10  Case-insensitive register/login round trip.  After register(e, p)  *)
(* has succeeded, in every later state login(e', p) succeeds for every e'  *)
(* that equals e after lowercasing, and the token it returns carries the   *)
(* id (and the stored email) of the user that registration created.        *)
(***************************************************************************)
C10_LoginWouldSucceed ==
    \A r \in registered : \A e \in EmailInputs \ {Undefined} :
        toLowerCase(e) = toLowerCase(r.email) =>
            LET out == login(e, r.password).out IN
            /\ out.status = 200
            /\ out.body.access_token.sub = r.id
            /\ out.body.access_token.email = toLowerCase(r.email)

C10_LoginSucceeded ==
    (resp.op = "login" /\ resp.email # Undefined)
    => \A r \in registered :
          (toLowerCase(resp.email) = toLowerCase(r.email) /\ resp.password = r.password)
          => /\ resp.status = 200
             /\ resp.body.access_token.sub = r.id

C10_RegisterLoginRoundTrip == C10_LoginWouldSucceed /\ C10_LoginSucceeded

\* registered as A@x.y, logged in as a@x.y
C10_Witness ==
    /\ resp.op = "login"
    /\ resp.status = 200
    /\ resp.email = aLower
    /\ \E r \in registered :
          /\ r.email = aUpper
          /\ r.password = resp.password
          /\ r.id = resp.body.access_token.sub


(***************************************************************************)
(* C12  Registration returns the public fields only.  The body of a        *)
(* successful register has the fields id, email and createdAt and no       *)
(* other: neither the password hash nor currentToken.                      *)
(***************************************************************************)
C12_RegisterReturnsPublicFieldsOnly ==
    (resp.op = "register" /\ resp.status = 201)
    => DOMAIN resp.body = {"id", "email", "createdAt"}

(***************************************************************************)
(* C13  Logout idempotence.  After a successful logout the user's          *)
(* currentToken is NULL, and the same logout request made again is         *)
(* answered with the same success and leaves the table as it is; more      *)
(* generally a logout by the owner, with any unexpired token of theirs,    *)
(* of a user whose currentToken is already NULL succeeds and changes       *)
(* nothing.                                                                *)
(***************************************************************************)
LogoutSuccess == Ok(200, [message |-> "logged out successfully"])

C13_AfterLogout ==
    (resp.op = "logout" /\ resp.status = 200 /\ resp.body = LogoutSuccess.body)
    => /\ \A u \in users : u.email = resp.email => u.currentToken = NoToken
       /\ AuthController_logout(resp.email, resp.auth) =
             [users |-> users, out |-> LogoutSuccess]

C13_RepeatWouldSucceed ==
    \A t \in issued :
        (/\ JwtVerify(t, now)
         /\ \E u \in users : u.email = t.email /\ u.currentToken = NoToken)
        => AuthController_logout(t.email, t) = [users |-> users, out |-> LogoutSuccess]

C13_RepeatStep ==
    (/\ resp'.op = "logout"
     /\ JwtVerify(resp'.auth, now)
     /\ resp'.auth.email = resp'.email
     /\ \E u \in users : u.email = resp'.email /\ u.currentToken = NoToken)
    => /\ resp'.status = 200
       /\ resp'.body = LogoutSuccess.body
       /\ users' = users

C13_LogoutIdempotent ==
    [](C13_AfterLogout /\ C13_RepeatWouldSucceed) /\ [][C13_RepeatStep]_vars

\* the state two owner logouts in a row end in: the second one is answered
\* like the first and leaves this state as it is
C13_Witness ==
    /\ resp.op = "logout"
    /\ resp.status = 200
    /\ resp.auth \in issued
    /\ resp.auth.email = resp.email
    /\ \E u \in users : u.email = resp.email /\ u.currentToken = NoToken
    /\ AuthController_logout(resp.email, resp.auth) =
          [users |-> users, out |-> LogoutSuccess]

(***************************************************************************)
(* C14  Token payload round trip.  The identity JwtStrategy.validate       *)
(* decodes from the token a login returns is the id and the stored         *)
(* (lowercase) email of the user who logged in; every token a login has    *)
(* returned decodes to the id and email of one and the same row; and the   *)
(* profile route answers exactly that identity.                            *)
(***************************************************************************)
C14_DecodesTo(token, u) == validate(token) = [userId |-> u.id, email |-> u.email]

C14_PayloadRoundTrip ==
    /\ (resp.op = "login" /\ resp.status = 200)
       => \E u \in users :
             /\ u.email = toLowerCase(resp.email)
             /\ C14_DecodesTo(resp.body.access_token, u)
    /\ \A t \in issued : \E u \in users : C14_DecodesTo(t, u)
    /\ (resp.op = "profile" /\ resp.status = 201)
       => \E u \in users : resp.body = [userId |-> u.id, email |-> u.email]

\* registered as A@x.y; the profile route answers the row's id and a@x.y
C14_Witness ==
    /\ resp.op = "profile"
    /\ resp.status = 201
    /\ \E r \in registered :
          /\ r.email = aUpper
          /\ resp.body = [userId |-> r.id, email |-> aLower]


(***************************************************************************)
(* C15  Registration input validation.  register fails with 400            *)
(* BadRequestException when the email or the password is missing or        *)
(* empty; otherwise when the password has fewer than 6 characters;         *)
(* otherwise when the email does not match local@domain.tld: the message   *)
(* is that of the first check that fails, in this order.  A register       *)
(* answered 400 has written nothing to the table.                          *)
(***************************************************************************)
C15_BadRequest(message) ==
    /\ resp.status = 400
    /\ resp.error = "BadRequestException"
    /\ resp.message = message
    /\ resp.body = NoBody

C15_ChecksInOrder ==
    resp.op = "register" =>
        /\ (Falsy(resp.email) \/ Falsy(resp.password))
           => C15_BadRequest("Email and password are required")
        /\ (~Falsy(resp.email) /\ ~Falsy(resp.password) /\ Len(resp.password) < 6)
           => C15_BadRequest("Password must be at least 6 characters")
        /\ (/\ ~Falsy(resp.email) /\ ~Falsy(resp.password)
            /\ Len(resp.password) >= 6
            /\ ~emailRegexTest(resp.email))
           => C15_BadRequest("Invalid email format")
        /\ resp.status = 400 =>
              \/ Falsy(resp.email) \/ Falsy(resp.password)
              \/ Len(resp.password) < 6
              \/ ~emailRegexTest(resp.email)

C15_RejectedWritesNothing ==
    (resp'.op = "register" /\ resp'.status = 400)
    => users' = users /\ registered' = registered

C15_RegisterValidation == [](C15_ChecksInOrder) /\ [][C15_RejectedWritesNothing]_vars

\* a short password and a malformed email: the password check answers
C15_Witness ==
    /\ resp.op = "register"
    /\ resp.email = noTld
    /\ resp.password = short5
    /\ resp.status = 400
    /\ resp.message = "Password must be at least 6 characters"

(***************************************************************************)
(* C16  Protected routes are unreachable without a valid token.  A         *)
(* profile or logout request gets past the guard only with a bearer token  *)
(* signed with the server's secret whose exp has not been reached; any     *)
(* other request (no token, another signature, expired) is answered 401    *)
(* UnauthorizedException and changes no row.                               *)
(***************************************************************************)
C16_ValidBearer(auth, clock) ==
    /\ auth # NoToken
    /\ auth.key = JWT_SECRET
    /\ clock < auth.exp

C16_GuardedRoutes ==
    resp.op \in {"profile", "logout"} =>
        IF C16_ValidBearer(resp.auth, now)
        THEN GuardPassed
        ELSE /\ resp.status = 401
             /\ resp.error = "UnauthorizedException"
             /\ resp.body = NoBody

C16_RejectedChangesNothing ==
    (resp'.op \in {"profile", "logout"} /\ ~C16_ValidBearer(resp'.auth, now))
    => resp'.status = 401 /\ users' = users

C16_ProtectedRoutes == [](C16_GuardedRoutes) /\ [][C16_RejectedChangesNothing]_vars

\* a self-signed token for a@x.y did not log a@x.y out
C16_Witness ==
    /\ resp.op = "logout"
    /\ resp.status = 401
    /\ resp.auth # NoToken
    /\ resp.auth.key # JWT_SECRET
    /\ resp.email = resp.auth.email
    /\ \E u \in users : u.email = resp.email /\ u.currentToken # NoToken


(***************************************************************************)
(* C19  Order of logout checks.  The lookup of the target email comes      *)
(* before the ownership check: an authenticated logout whose target email  *)
(* matches no user is answered 400 BadRequestException "Enter a valid      *)
(* email." (never 403), also when the target differs from the caller's     *)
(* email; 403 ForbiddenException is answered only for a target that is     *)
(* the email of an existing user other than the caller.                    *)
(***************************************************************************)
C19_TargetExists == \E u \in users : u.email = resp.email

C19_ExistenceBeforeOwnership ==
    (resp.op = "logout" /\ GuardPassed /\ ~Falsy(resp.email)) =>
        /\ ~C19_TargetExists =>
              /\ resp.status = 400
              /\ resp.error = "BadRequestException"
              /\ resp.message = "Enter a valid email."
        /\ resp.status = 403 =>
              /\ resp.error = "ForbiddenException"
              /\ C19_TargetExists
              /\ resp.email # resp.auth.email
        /\ (C19_TargetExists /\ resp.email # resp.auth.email) => resp.status = 403

\* the caller names somebody else's email that is not registered
C19_Witness ==
    /\ resp.op = "logout"
    /\ GuardPassed
    /\ ~Falsy(resp.email)
    /\ resp.email # resp.auth.email
    /\ ~C19_TargetExists
    /\ resp.status = 400
    /\ resp.message = "Enter a valid email."

(***************************************************************************)
(* C20  Frame of login and logout.  A successful login or logout for user  *)
(* U writes only U's currentToken: U's id, email, password hash and        *)
(* createdAt are unchanged, every other user's row is unchanged, and no    *)
(* row is created or deleted.                                              *)
(***************************************************************************)
C20_Target(r) == IF r.op = "login" THEN toLowerCase(r.email) ELSE r.email

C20_SameButToken(u, v) ==
    /\ v.id = u.id
    /\ v.email = u.email
    /\ v.password = u.password
    /\ v.createdAt = u.createdAt

C20_Frame ==
    (resp'.op \in {"login", "logout"} /\ resp'.status = 200) =>
        /\ Cardinality(users') = Cardinality(users)
        /\ \A u \in users :
              IF u.email = C20_Target(resp')
              THEN \E v \in users' : C20_SameButToken(u, v)
              ELSE u \in users'

C20_LoginLogoutFrame == [][C20_Frame]_vars

\* b@x.y logged in while a@x.y holds a session, and a's session is still there
C20_Witness ==
    /\ resp.op = "login"
    /\ resp.status = 200
    /\ toLowerCase(resp.email) = bLower
    /\ \E u \in users : /\ u.email = aLower
                        /\ u.currentToken # NoToken
    /\ \E u \in users : /\ u.email = bLower
                        /\ u.currentToken = resp.body.access_token


(***************************************************************************)
(* C17  Login is all-or-nothing with respect to token persistence.  When   *)
(* the write of the token to currentToken is rejected, a login with valid  *)
(* credentials answers 500 Internal server error, carries no access_token, *)
(* hands out no token and leaves the table as it was; every login that     *)
(* answers an access_token has stored that token in the user's row.        *)
(***************************************************************************)
C17_FailedWriteFailsLogin ==
    (resp.op = "login" /\ writeFails /\ MatchesRegistration(resp.email, resp.password))
    => /\ resp.status = 500
       /\ resp.error = "InternalServerError"
       /\ resp.body = NoBody

C17_TokenOnlyIfStored ==
    (resp.op = "login" /\ resp.status = 200)
    => /\ ~writeFails
       /\ \E u \in users : u.currentToken = resp.body.access_token

C17_NothingHandedOut ==
    (resp'.op = "login" /\ writeFails)
    => /\ resp'.status # 200
       /\ users' = users
       /\ issued' = issued

C17_LoginAllOrNothing ==
    [](C17_FailedWriteFailsLogin /\ C17_TokenOnlyIfStored) /\ [][C17_NothingHandedOut]_vars

\* valid credentials, a rejected write, and the row without a token
C17_Witness ==
    /\ resp.op = "login"
    /\ writeFails
    /\ MatchesRegistration(resp.email, resp.password)
    /\ resp.status = 500
    /\ \E u \in users : /\ u.email = toLowerCase(resp.email)
                        /\ u.currentToken = NoToken


(***************************************************************************)
(* C11  Concurrent registrations.  When register calls with                *)
(* case-insensitively equal emails overlap, under every interleaving at    *)
(* most one of them succeeds and creates a row; every other one that       *)
(* reaches the store fails with 409 ConflictException and creates nothing. *)
(***************************************************************************)
C11_SameEmail(e1, e2) == toLowerCase(e1) = toLowerCase(e2)

C11_Answered(p, status) ==
    /\ calls[p].op = "register"
    /\ calls[p].pc = "done"
    /\ calls[p].out.status = status

C11_AtMostOneRow ==
    /\ \A u, v \in users : C11_SameEmail(u.email, v.email) => u = v
    /\ \A r1, r2 \in registered : C11_SameEmail(r1.email, r2.email) => r1 = r2

C11_AtMostOneSucceeds ==
    \A p, q \in Procs :
        (/\ p # q
         /\ C11_Answered(p, 201)
         /\ calls[q].op = "register"
         /\ calls[q].pc = "done"
         /\ C11_SameEmail(calls[p].email, calls[q].email))
        => \/ C11_Answered(q, 400)
           \/ /\ C11_Answered(q, 409)
              /\ calls[q].out.error = "ConflictException"

C11_CreateStep ==
    \A p \in Procs :
        (calls[p].op = "register" /\ calls[p].pc = "create" /\ calls'[p].pc = "done"
         /\ calls'[p].out.status # 400)
        => IF \E u \in users : C11_SameEmail(u.email, calls[p].email)
           THEN /\ calls'[p].out.status = 409
                /\ calls'[p].out.error = "ConflictException"
                /\ users' = users
           ELSE /\ calls'[p].out.status = 201
                /\ Cardinality(users') = Cardinality(users) + 1
                /\ users \subseteq users'

C11_ConcurrentRegistration ==
    [](C11_AtMostOneRow /\ C11_AtMostOneSucceeds) /\ [][C11_CreateStep]_vars

\* two calls for a@x.y and A@x.y were both in flight when the row was
\* created (each started before the tick of the row's createdAt); one
\* answered 201 and the other 409
C11_Witness ==
    \E p, q \in Procs :
        /\ C11_Answered(p, 201)
        /\ C11_Answered(q, 409)
        /\ calls[p].email # calls[q].email
        /\ C11_SameEmail(calls[p].email, calls[q].email)
        /\ \E u \in users :
              /\ u.id = calls[p].out.body.id
              /\ calls[p].startedAt < u.createdAt
              /\ calls[q].startedAt < u.createdAt

(***************************************************************************)
(* C18  Single-session tracking under interleaving.  Whenever no login of  *)
(* a user is in progress, the user's currentToken is NULL or the most      *)
(* recently signed of the tokens issued to that user, also when two        *)
(* logins of the user overlapped between signing and writing.              *)
(***************************************************************************)
C18_LoginInProgress(u) ==
    \E p \in Procs :
        /\ calls[p].op = "login"
        /\ calls[p].pc \in {"compare", "update"}
        /\ toLowerCase(calls[p].email) = u.email

C18_StoredIsLatestSigned ==
    \A u \in users :
        (~C18_LoginInProgress(u) /\ u.currentToken # NoToken)
        => \A t \in issued : t.sub = u.id => t.iat <= u.currentToken.iat


(***************************************************************************)
(* C21  Failed operations have no effect on the store.  A register         *)
(* answered 400 BadRequestException or 409 ConflictException, a login      *)
(* answered 401 UnauthorizedException, and a logout answered 400           *)
(* BadRequestException or 403 ForbiddenException leave the set of rows     *)
(* and every field of every row, each currentToken included, as they were  *)
(* before the request.                                                     *)
(***************************************************************************)
C21_Failed(r) ==
    \/ r.op = "register" /\ r.status \in {400, 409}
    \/ r.op = "login" /\ r.status = 401
    \/ r.op = "logout" /\ r.status \in {400, 403}

C21_FailureStep == C21_Failed(resp') => users' = users

C21_FailedLeavesStore == [][C21_FailureStep]_vars

\* b@x.y, logged in, was refused the logout of a@x.y, whose session is
\* still stored
C21_Witness ==
    /\ resp.op = "logout"
    /\ resp.status = 403
    /\ resp.auth \in issued
    /\ resp.auth.email = bLower
    /\ resp.email = aLower
    /\ \E u \in users : u.email = aLower /\ u.currentToken # NoToken


(***************************************************************************)
(* C22  Logout does not depend on the stored token.  The answer of a       *)
(* logout request is a function of the target email, the token's           *)
(* signature, expiry and email, the clock and the set of registered        *)
(* emails: no currentToken enters it, so it is the same in any two states  *)
(* that differ only in currentToken values and for any two unexpired       *)
(* tokens carrying the same email.  Its effect is to set the target row's  *)
(* currentToken to NULL when it succeeds and nothing otherwise.  In        *)
(* particular a token superseded by a later login of the same user still   *)
(* logs the user out and clears the token that later login stored.         *)
(***************************************************************************)
\* the answer, from what the request carries and the emails that exist
C22_Answer(email, auth, emails, clock) ==
    IF auth = NoToken
    THEN Unauthorized
    ELSE IF auth.key # JWT_SECRET \/ clock >= auth.exp
    THEN Unauthorized
    ELSE IF Falsy(email)
    THEN Ok(200, [message |-> "Email is required to logout"])
    ELSE IF email \notin emails
    THEN Exception(400, "BadRequestException", "Enter a valid email.")
    ELSE IF email # auth.email
    THEN Exception(403, "ForbiddenException", "You can only logout your own account.")
    ELSE LogoutSuccess

C22_Effect(email, answer) ==
    {IF u.email = email /\ answer = LogoutSuccess
     THEN [u EXCEPT !.currentToken = NoToken]
     ELSE u : u \in users}

C22_StoredTokenNotRead ==
    \A email \in EmailInputs, auth \in Presentable :
        LET answer == C22_Answer(email, auth, {u.email : u \in users}, now) IN
        AuthController_logout(email, auth) =
            [users |-> C22_Effect(email, answer), out |-> answer]

C22_AnyOwnerToken ==
    \A email \in EmailInputs, t1, t2 \in issued :
        (JwtVerify(t1, now) /\ JwtVerify(t2, now) /\ t1.email = t2.email)
        => AuthController_logout(email, t1) = AuthController_logout(email, t2)

C22_SupersededStep ==
    (/\ resp'.op = "logout"
     /\ resp'.auth \in issued
     /\ JwtVerify(resp'.auth, now)
     /\ resp'.auth.email = resp'.email
     /\ \E u \in users : /\ u.email = resp'.email
                         /\ u.currentToken \notin {NoToken, resp'.auth})
    => /\ resp'.status = 200
       /\ resp'.body = LogoutSuccess.body
       /\ \A u \in users' : u.email = resp'.email => u.currentToken = NoToken

C22_LogoutIgnoresStoredToken ==
    [](C22_StoredTokenNotRead /\ C22_AnyOwnerToken) /\ [][C22_SupersededStep]_vars

\* the first of two tokens of a user, presented in the tick of the second
\* login, logged the user out
C22_Witness ==
    /\ resp.op = "logout"
    /\ resp.status = 200
    /\ resp.body = LogoutSuccess.body
    /\ resp.auth \in issued
    /\ \E t \in issued : /\ t.sub = resp.auth.sub
                         /\ t.iat > resp.auth.iat
                         /\ t.iat = now
    /\ \A u \in users : u.id = resp.auth.sub => u.currentToken = NoToken


(***************************************************************************)
(* C23  Stored-token provenance.  In every reachable state, under every    *)
(* interleaving of register, login and logout calls, each user's           *)
(* currentToken is NULL or a token signed by a login of that user: signed  *)
(* with the server's secret, its sub the user's id and its email the       *)
(* user's stored email, and handed out by a login that answered 200.  A    *)
(* newly registered user has no currentToken until a login of that user    *)
(* has succeeded.                                                          *)
(***************************************************************************)
C23_SignedFor(token, u) ==
    /\ token.key = JWT_SECRET
    /\ token.sub = u.id
    /\ token.email = u.email
    /\ token.exp = token.iat + ExpiresIn

C23_Provenance ==
    \A u \in users :
        u.currentToken # NoToken =>
            /\ C23_SignedFor(u.currentToken, u)
            /\ u.currentToken \in issued

C23_NewUserHasNoToken ==
    \A v \in users' :
        (\A u \in users : u.id # v.id) => v.currentToken = NoToken

C23_FirstTokenByLogin ==
    \A u \in users :
        \A v \in users' :
            (v.id = u.id /\ u.currentToken = NoToken /\ v.currentToken # NoToken)
            => \E p \in Procs :
                  /\ calls[p].op = "login"
                  /\ calls[p].pc = "update"
                  /\ toLowerCase(calls[p].email) = u.email
                  /\ calls'[p].pc = "done"
                  /\ calls'[p].out.status = 200
                  /\ calls'[p].out.body.access_token = v.currentToken

C23_StoredTokenProvenance ==
    [](C23_Provenance) /\ [][C23_NewUserHasNoToken /\ C23_FirstTokenByLogin]_vars

\* a login for A@x.y that overlapped another login answered 200, and the
\* row of a@x.y, registered before, holds the token it returned
C23_Witness ==
    \E p, q \in Procs :
        /\ p # q
        /\ calls[p].op = "login"
        /\ calls[p].pc = "done"
        /\ calls[p].out.status = 200
        /\ calls[p].email = aUpper
        /\ calls[q].op = "login"
        /\ calls[q].pc = "update"
        /\ \E u \in users :
              /\ u.email = aLower
              /\ u.currentToken = calls[p].out.body.access_token
              /\ C23_SignedFor(u.currentToken, u)

====
